---- MODULE Spec2Model ----
(***************************************************************************)
(* skgpu::DrawContext (experimental/graphite/src/DrawContext.cpp): the     *)
(* recording of draw operations into the pending DrawList, the snapshot    *)
(* of the pending list into a DrawPass, and the hand-off of the accumulated*)
(* passes to a RenderPassTask.                                             *)
(*                                                                         *)
(* DrawList, DrawPass and RenderPassTask are collaborators whose code is   *)
(* not part of the sources at hand; they are modelled from their contract  *)
(* (append-only list with a count, factories that take ownership).         *)
(***************************************************************************)
EXTENDS Integers, Sequences, FiniteSets, TLC

\* ------------------------------------------------------------------ bounds
\* Longest sequence of public calls made on one DrawContext.
MaxCalls == 5

\* Most StartRuntimeShader / EndRuntimeShader rounds made on one thread.
MaxShaders == 2

\* ------------------------------------------------------------ input values
\* Non-null render targets a DrawContext can be constructed over.
Targets == {"t1", "t2"}
\* Values of the argument bundle of a recording call (localToDevice, shape,
\* scissor, order, paint and, for strokePath, stroke): forwarded untouched.
DrawArgs == {"a1", "a2"}
\* The occlusionCuller argument of the snapshot calls (it may be null).
Cullers == {"nullptr", "bm"}
\* The arguments of DrawContext::Make: the target may be null.
MakeTargets == Targets \cup {"nullptr"}
ColorSpaces == {"nullptr", "srgb", "linear"}
ColorTypes ==
    {"kUnknown_SkColorType", "kAlpha_8_SkColorType",
     "kRGBA_8888_SkColorType", "kRGBA_F16_SkColorType"}
AlphaTypes ==
    {"kUnknown_SkAlphaType", "kOpaque_SkAlphaType",
     "kPremul_SkAlphaType", "kUnpremul_SkAlphaType"}

\* The compiler argument of StartRuntimeShader.
Compilers == {"compiler1", "compiler2"}
\* The options argument of EndRuntimeShader.
EffectOptions == {"defaultOptions", "forceNoInline"}
\* What ReleaseProgram() can yield: no program, or a program.
ReleasedPrograms == {"nullptr", "program"}
\* What SkRuntimeEffect::MakeForShader can yield: no effect, or an effect.
MadeEffects == {"nullptr", "effect"}

VARIABLES
    fTarget,        \* sk_sp<TextureProxy> fTarget
    fImageInfo,     \* SkImageInfo fImageInfo
    fPendingDraws,  \* std::unique_ptr<DrawList> fPendingDraws
    fDrawPasses,    \* std::vector<std::unique_ptr<DrawPass>> fDrawPasses
    allocs,         \* number of DrawList instances allocated so far
    trace,          \* history: the public calls made so far, with results
    pc,             \* where control is: "idle" between two public calls
    frame           \* the arguments and locals of the call in progress

vars == <<fTarget, fImageInfo, fPendingDraws, fDrawPasses, allocs, trace, pc, frame>>

\* ------------------------------------------------------------ collaborators
\* std::make_unique<DrawList>(): a new, empty list; n numbers the instance.
make_unique_DrawList(n) == [id |-> n, ops |-> <<>>]

\* A null std::unique_ptr<DrawList>.
NullDrawList == [id |-> 0, ops |-> <<>>]

\* DrawList::count()
DrawList_count(list) == Len(list.ops)

\* DrawList::stencilAndFillPath / fillConvexPath / strokePath: append one
\* operation; call is the identity of the recorded operation.
DrawList_stencilAndFillPath(list, args, call) ==
    [list EXCEPT !.ops = Append(@, [kind |-> "stencilAndFillPath", args |-> args, call |-> call])]

DrawList_fillConvexPath(list, args, call) ==
    [list EXCEPT !.ops = Append(@, [kind |-> "fillConvexPath", args |-> args, call |-> call])]

DrawList_strokePath(list, args, call) ==
    [list EXCEPT !.ops = Append(@, [kind |-> "strokePath", args |-> args, call |-> call])]

\* DrawPass::Make(std::unique_ptr<DrawList>, sk_sp<TextureProxy>, const BoundsManager*)
DrawPass_Make(draws, target, occlusionCuller) ==
    [draws |-> draws, target |-> target, culler |-> occlusionCuller]

\* sk_sp<Task>: a null pointer, or the task RenderPassTask::Make built.
NullTask == [null |-> TRUE, passes |-> <<>>]

\* RenderPassTask::Make(std::vector<std::unique_ptr<DrawPass>>)
RenderPassTask_Make(passes) == [null |-> FALSE, passes |-> passes]

\* target->dimensions()
TextureProxy_dimensions(target) == IF target = "t1" THEN <<256, 256>> ELSE <<64, 32>>

\* SkImageInfo::Make(dimensions, colorType, alphaType, colorSpace)
SkImageInfo_Make(dims, colorType, alphaType, colorSpace) ==
    [dimensions |-> dims, colorType |-> colorType, alphaType |-> alphaType,
     colorSpace |-> colorSpace]

\* ------------------------------------------------------------- DrawContext
\* The object as a value: the fields, and the allocation count its calls to
\* make_unique draw from.
Self ==
    [fTarget |-> fTarget, fImageInfo |-> fImageInfo,
     fPendingDraws |-> fPendingDraws, fDrawPasses |-> fDrawPasses,
     allocs |-> allocs]

\* DrawContext::DrawContext(target, ii)
DrawContext_ctor(target, ii) ==
    [fTarget |-> target, fImageInfo |-> ii,
     fPendingDraws |-> make_unique_DrawList(1), fDrawPasses |-> <<>>,
     allocs |-> 1]

\* Variant: the null check on the target is missing.
DrawContext_Make_noNullCheck(target, colorSpace, colorType, alphaType) ==
    LET imageInfo == SkImageInfo_Make(TextureProxy_dimensions(target),
                                      colorType, alphaType, colorSpace)
    IN  <<DrawContext_ctor(target, imageInfo)>>

\* DrawContext::Make: the empty sequence stands for the null sk_sp, a
\* one-element sequence for the instance returned.
DrawContext_Make(target, colorSpace, colorType, alphaType) ==
    IF target = "nullptr"
    THEN <<>>
    ELSE LET imageInfo == SkImageInfo_Make(TextureProxy_dimensions(target),
                                           colorType, alphaType, colorSpace)
         IN  <<DrawContext_ctor(target, imageInfo)>>

\* DrawContext::~DrawContext: the conjunction of its two SkASSERTs.
DrawContext_dtor_asserts(this) ==
    /\ DrawList_count(this.fPendingDraws) = 0
    /\ this.fDrawPasses = <<>>

\* DrawContext::stencilAndFillPath
stencilAndFillPath(this, args, call) ==
    [this EXCEPT !.fPendingDraws = DrawList_stencilAndFillPath(@, args, call)]

\* Variant: the call forwards to the wrong DrawList method.
fillConvexPath_asStencilAndFill(this, args, call) ==
    [this EXCEPT !.fPendingDraws = DrawList_stencilAndFillPath(@, args, call)]

\* DrawContext::fillConvexPath
fillConvexPath(this, args, call) ==
    [this EXCEPT !.fPendingDraws = DrawList_fillConvexPath(@, args, call)]

\* Variant: the call does not reach the pending list.
strokePath_noop(this, args, call) == this

\* DrawContext::strokePath
strokePath(this, args, call) ==
    [this EXCEPT !.fPendingDraws = DrawList_strokePath(@, args, call)]

\* Variant: no early return on an empty pending list.
snapDrawPass_noEarlyReturn(this, occlusionCuller) ==
    LET pass == DrawPass_Make(this.fPendingDraws, this.fTarget, occlusionCuller)
    IN  [this EXCEPT !.fDrawPasses = Append(@, pass),
                     !.fPendingDraws = make_unique_DrawList(this.allocs + 1),
                     !.allocs = @ + 1]

\* Variant: the pass is built from a copy and the pending list is kept.
snapDrawPass_keepsPending(this, occlusionCuller) ==
    IF DrawList_count(this.fPendingDraws) = 0
    THEN this
    ELSE LET pass == DrawPass_Make(this.fPendingDraws, this.fTarget, occlusionCuller)
         IN  [this EXCEPT !.fDrawPasses = Append(@, pass)]

\* Variant: the new pass is inserted at the front of the pass sequence.
snapDrawPass_pushFront(this, occlusionCuller) ==
    IF DrawList_count(this.fPendingDraws) = 0
    THEN this
    ELSE LET pass == DrawPass_Make(this.fPendingDraws, this.fTarget, occlusionCuller)
         IN  [this EXCEPT !.fDrawPasses = <<pass>> \o @,
                          !.fPendingDraws = make_unique_DrawList(this.allocs + 1),
                          !.allocs = @ + 1]

\* Variant: the pending list is replaced but the pass is never stored.
snapDrawPass_dropsPass(this, occlusionCuller) ==
    IF DrawList_count(this.fPendingDraws) = 0
    THEN this
    ELSE [this EXCEPT !.fPendingDraws = make_unique_DrawList(this.allocs + 1),
                      !.allocs = @ + 1]

\* Variant: the target is moved into the pass instead of copied.
snapDrawPass_movesTarget(this, occlusionCuller) ==
    IF DrawList_count(this.fPendingDraws) = 0
    THEN this
    ELSE LET pass == DrawPass_Make(this.fPendingDraws, this.fTarget, occlusionCuller)
         IN  [this EXCEPT !.fDrawPasses = Append(@, pass),
                          !.fPendingDraws = make_unique_DrawList(this.allocs + 1),
                          !.allocs = @ + 1,
                          !.fTarget = "nullptr"]

\* DrawContext::snapDrawPass
snapDrawPass(this, occlusionCuller) ==
    IF DrawList_count(this.fPendingDraws) = 0
    THEN this
    ELSE LET pass == DrawPass_Make(this.fPendingDraws, this.fTarget, occlusionCuller)
         IN  [this EXCEPT !.fDrawPasses = Append(@, pass),
                          !.fPendingDraws = make_unique_DrawList(this.allocs + 1),
                          !.allocs = @ + 1]

\* Variant: the passes are copied into the task instead of moved.
snapRenderPassTask_copiesPasses(this, occlusionCuller) ==
    LET snapped == snapDrawPass(this, occlusionCuller)
    IN  IF snapped.fDrawPasses = <<>>
        THEN [this |-> snapped, ret |-> NullTask]
        ELSE [this |-> snapped, ret |-> RenderPassTask_Make(snapped.fDrawPasses)]

\* Variant: the final snapDrawPass is left out.
snapRenderPassTask_noFinalSnap(this, occlusionCuller) ==
    IF this.fDrawPasses = <<>>
    THEN [this |-> this, ret |-> NullTask]
    ELSE [this |-> [this EXCEPT !.fDrawPasses = <<>>],
          ret  |-> RenderPassTask_Make(this.fDrawPasses)]

\* Variant: no check for an empty pass sequence.
snapRenderPassTask_noEmptyCheck(this, occlusionCuller) ==
    LET snapped == snapDrawPass(this, occlusionCuller)
    IN  [this |-> [snapped EXCEPT !.fDrawPasses = <<>>],
         ret  |-> RenderPassTask_Make(snapped.fDrawPasses)]

\* Variant: the emptiness check is made before the final snapDrawPass.
snapRenderPassTask_checksBeforeSnap(this, occlusionCuller) ==
    IF this.fDrawPasses = <<>>
    THEN [this |-> snapDrawPass(this, occlusionCuller), ret |-> NullTask]
    ELSE LET snapped == snapDrawPass(this, occlusionCuller)
         IN  [this |-> [snapped EXCEPT !.fDrawPasses = <<>>],
              ret  |-> RenderPassTask_Make(snapped.fDrawPasses)]

\* DrawContext::snapRenderPassTask: the object afterwards and the result.
snapRenderPassTask(this, occlusionCuller) ==
    LET snapped == snapDrawPass(this, occlusionCuller)
    IN  IF snapped.fDrawPasses = <<>>
        THEN [this |-> snapped, ret |-> NullTask]
        ELSE [this |-> [snapped EXCEPT !.fDrawPasses = <<>>],
              ret  |-> RenderPassTask_Make(snapped.fDrawPasses)]

\* ------------------------------------------------------------------ actions
Store(this) ==
    /\ fTarget' = this.fTarget
    /\ fImageInfo' = this.fImageInfo
    /\ fPendingDraws' = this.fPendingDraws
    /\ fDrawPasses' = this.fDrawPasses
    /\ allocs' = this.allocs

\* No call in progress.
NoFrame == [op |-> "-"]

Call(op, args, culler, ret) == [op |-> op, args |-> args, culler |-> culler, ret |-> ret]

\* The state right after DrawContext::Make(target, colorSpace, colorType,
\* alphaType) returned an instance for a non-null target.
Init ==
    \E target \in Targets :
        LET ii   == SkImageInfo_Make(TextureProxy_dimensions(target),
                                     "kRGBA_8888", "kPremul", "srgb")
            this == DrawContext_ctor(target, ii)
        IN  /\ fTarget = this.fTarget
            /\ fImageInfo = this.fImageInfo
            /\ fPendingDraws = this.fPendingDraws
            /\ fDrawPasses = this.fDrawPasses
            /\ allocs = this.allocs
            /\ trace = <<>>
            /\ pc = "idle"
            /\ frame = NoFrame

CallStencilAndFillPath ==
    /\ pc = "idle"
    /\ Len(trace) < MaxCalls
    /\ UNCHANGED <<pc, frame>>
    /\ \E args \in DrawArgs :
        /\ Store(stencilAndFillPath(Self, args, Len(trace) + 1))
        /\ trace' = Append(trace, Call("stencilAndFillPath", args, "-", NullTask))

CallFillConvexPath ==
    /\ pc = "idle"
    /\ Len(trace) < MaxCalls
    /\ UNCHANGED <<pc, frame>>
    /\ \E args \in DrawArgs :
        /\ Store(fillConvexPath(Self, args, Len(trace) + 1))
        /\ trace' = Append(trace, Call("fillConvexPath", args, "-", NullTask))

CallStrokePath ==
    /\ pc = "idle"
    /\ Len(trace) < MaxCalls
    /\ UNCHANGED <<pc, frame>>
    /\ \E args \in DrawArgs :
        /\ Store(strokePath(Self, args, Len(trace) + 1))
        /\ trace' = Append(trace, Call("strokePath", args, "-", NullTask))

CallSnapDrawPass ==
    /\ pc = "idle"
    /\ Len(trace) < MaxCalls
    /\ UNCHANGED <<pc, frame>>
    /\ \E occlusionCuller \in Cullers :
        /\ Store(snapDrawPass(Self, occlusionCuller))
        /\ trace' = Append(trace, Call("snapDrawPass", "-", occlusionCuller, NullTask))

CallSnapRenderPassTask ==
    /\ pc = "idle"
    /\ Len(trace) < MaxCalls
    /\ UNCHANGED <<pc, frame>>
    /\ \E occlusionCuller \in Cullers :
        LET r == snapRenderPassTask(Self, occlusionCuller)
        IN  /\ Store(r.this)
            /\ trace' = Append(trace, Call("snapRenderPassTask", "-", occlusionCuller, r.ret))

Next ==
    \/ CallStencilAndFillPath
    \/ CallFillConvexPath
    \/ CallStrokePath
    \/ CallSnapDrawPass
    \/ CallSnapRenderPassTask

Spec == Init /\ [][Next]_vars

\* ------------------------------------------- the calls, statement by statement
\* snapDrawPass and snapRenderPassTask run one statement per step, so that the
\* states between the statements are states of the model; the destructor ends
\* the DrawContext's life.  The recording calls are the single statements
\* modelled above.
DrawContextFields == <<fTarget, fImageInfo, fPendingDraws, fDrawPasses, allocs>>

\* snapDrawPass(occlusionCuller) is called from outside.
EnterSnapDrawPass ==
    /\ pc = "idle"
    /\ Len(trace) < MaxCalls
    /\ \E occlusionCuller \in Cullers :
          frame' = [op |-> "snapDrawPass", culler |-> occlusionCuller]
    /\ pc' = "snap_76"
    /\ UNCHANGED <<DrawContextFields, trace>>

\* snapRenderPassTask(occlusionCuller) is called: line 86 calls snapDrawPass.
EnterSnapRenderPassTask ==
    /\ pc = "idle"
    /\ Len(trace) < MaxCalls
    /\ \E occlusionCuller \in Cullers :
          frame' = [op |-> "snapRenderPassTask", culler |-> occlusionCuller]
    /\ pc' = "snap_76"
    /\ UNCHANGED <<DrawContextFields, trace>>

\* snapDrawPass returns: to its outside caller, or to line 87 of
\* snapRenderPassTask.
SnapDrawPassReturns ==
    IF frame.op = "snapDrawPass"
    THEN /\ pc' = "idle"
         /\ trace' = Append(trace, Call("snapDrawPass", "-", frame.culler, NullTask))
         /\ frame' = NoFrame
    ELSE /\ pc' = "task_87"
         /\ UNCHANGED <<trace, frame>>

\* Line 76-78: if (fPendingDraws->count() == 0) return;
SnapDrawPass_L76 ==
    /\ pc = "snap_76"
    /\ IF DrawList_count(fPendingDraws) = 0
       THEN SnapDrawPassReturns
       ELSE pc' = "snap_80" /\ UNCHANGED <<trace, frame>>
    /\ UNCHANGED DrawContextFields

\* Line 80: auto pass = DrawPass::Make(std::move(fPendingDraws), fTarget,
\* occlusionCuller); the moved-from unique_ptr is null.
SnapDrawPass_L80 ==
    /\ pc = "snap_80"
    /\ frame' = [op |-> frame.op, culler |-> frame.culler,
                 pass |-> DrawPass_Make(fPendingDraws, fTarget, frame.culler)]
    /\ fPendingDraws' = NullDrawList
    /\ pc' = "snap_81"
    /\ UNCHANGED <<fTarget, fImageInfo, fDrawPasses, allocs, trace>>

\* Line 81: fDrawPasses.push_back(std::move(pass));
SnapDrawPass_L81 ==
    /\ pc = "snap_81"
    /\ fDrawPasses' = Append(fDrawPasses, frame.pass)
    /\ frame' = [op |-> frame.op, culler |-> frame.culler]
    /\ pc' = "snap_82"
    /\ UNCHANGED <<fTarget, fImageInfo, fPendingDraws, allocs, trace>>

\* Variant: line 82 is missing, the pending pointer stays null.
SnapDrawPass_L82_noNewList ==
    /\ pc = "snap_82"
    /\ SnapDrawPassReturns
    /\ UNCHANGED DrawContextFields

\* Line 82-83: fPendingDraws = std::make_unique<DrawList>(); and return.
SnapDrawPass_L82 ==
    /\ pc = "snap_82"
    /\ fPendingDraws' = make_unique_DrawList(allocs + 1)
    /\ allocs' = allocs + 1
    /\ SnapDrawPassReturns
    /\ UNCHANGED <<fTarget, fImageInfo, fDrawPasses>>

\* Line 87-89: if (fDrawPasses.empty()) return nullptr;
SnapRenderPassTask_L87 ==
    /\ pc = "task_87"
    /\ IF fDrawPasses = <<>>
       THEN /\ pc' = "idle"
            /\ trace' = Append(trace, Call("snapRenderPassTask", "-", frame.culler, NullTask))
            /\ frame' = NoFrame
       ELSE pc' = "task_91" /\ UNCHANGED <<trace, frame>>
    /\ UNCHANGED DrawContextFields

\* Variant: line 91 hands over a copy of the passes.
SnapRenderPassTask_L91_copies ==
    /\ pc = "task_91"
    /\ trace' = Append(trace, Call("snapRenderPassTask", "-", frame.culler,
                                   RenderPassTask_Make(fDrawPasses)))
    /\ frame' = NoFrame
    /\ pc' = "idle"
    /\ UNCHANGED DrawContextFields

\* Line 91: return RenderPassTask::Make(std::move(fDrawPasses));
SnapRenderPassTask_L91 ==
    /\ pc = "task_91"
    /\ trace' = Append(trace, Call("snapRenderPassTask", "-", frame.culler,
                                   RenderPassTask_Make(fDrawPasses)))
    /\ fDrawPasses' = <<>>
    /\ frame' = NoFrame
    /\ pc' = "idle"
    /\ UNCHANGED <<fTarget, fImageInfo, fPendingDraws, allocs>>

\* DrawContext::~DrawContext: pc = "destroyed" when both SkASSERTs held,
\* "assert_failed" when one did not.
CallDestructor ==
    /\ pc = "idle"
    /\ Len(trace) < MaxCalls
    /\ pc' = IF DrawContext_dtor_asserts(Self) THEN "destroyed" ELSE "assert_failed"
    /\ trace' = Append(trace, Call("~DrawContext", "-", "-", NullTask))
    /\ UNCHANGED <<DrawContextFields, frame>>

LifeNext ==
    \/ CallStencilAndFillPath
    \/ CallFillConvexPath
    \/ CallStrokePath
    \/ EnterSnapDrawPass
    \/ EnterSnapRenderPassTask
    \/ SnapDrawPass_L76
    \/ SnapDrawPass_L80
    \/ SnapDrawPass_L81
    \/ SnapDrawPass_L82
    \/ SnapRenderPassTask_L87
    \/ SnapRenderPassTask_L91
    \/ CallDestructor

LifeSpec == Init /\ [][LifeNext]_vars

\* ------------------------------------------------------ DrawContext::Make
\* Before DrawContext::Make is called there is no DrawContext; the arguments
\* of the call are in frame.
MakeInit ==
    /\ fTarget = "nullptr"
    /\ fImageInfo = SkImageInfo_Make(<<0, 0>>, "kUnknown_SkColorType",
                                     "kUnknown_SkAlphaType", "nullptr")
    /\ fPendingDraws = NullDrawList
    /\ fDrawPasses = <<>>
    /\ allocs = 0
    /\ trace = <<>>
    /\ pc = "Make"
    /\ \E target \in MakeTargets, colorSpace \in ColorSpaces,
          colorType \in ColorTypes, alphaType \in AlphaTypes :
          frame = [op |-> "Make", target |-> target, colorSpace |-> colorSpace,
                   colorType |-> colorType, alphaType |-> alphaType]

\* DrawContext::Make runs: pc = "no_instance" when it returned nullptr, "idle"
\* when it returned a DrawContext.
CallMake ==
    /\ pc = "Make"
    /\ LET made == DrawContext_Make(frame.target, frame.colorSpace,
                                    frame.colorType, frame.alphaType)
       IN  IF made = <<>>
           THEN /\ pc' = "no_instance"
                /\ UNCHANGED <<fTarget, fImageInfo, fPendingDraws, fDrawPasses, allocs>>
           ELSE /\ pc' = "idle"
                /\ Store(made[1])
    /\ UNCHANGED <<trace, frame>>

MakeNext == CallMake

MakeSpec == MakeInit /\ [][MakeNext]_vars

TypeOK ==
    /\ fTarget \in Targets
    /\ DrawList_count(fPendingDraws) \in 0..MaxCalls
    /\ Len(fDrawPasses) \in 0..MaxCalls
    /\ allocs \in 1..(MaxCalls + 1)
    /\ Len(trace) \in 0..MaxCalls

\* ------------------------------------------- SkSL::dsl runtime-effect glue
\* (src/sksl/dsl/DSLRuntimeEffects.cpp)  The thread's DSL state is in frame:
\* whether a ThreadContext is active, its settings, the locals of the
\* EndRuntimeShader call in progress, and log, the collaborator calls that
\* EndRuntimeShader call has made so far, in order.
ShaderInit ==
    /\ fTarget = "nullptr"
    /\ fImageInfo = SkImageInfo_Make(<<0, 0>>, "kUnknown_SkColorType",
                                     "kUnknown_SkAlphaType", "nullptr")
    /\ fPendingDraws = NullDrawList
    /\ fDrawPasses = <<>>
    /\ allocs = 0
    /\ trace = <<>>
    /\ pc = "dsl_idle"
    /\ frame = [active |-> FALSE, compiler |-> "-",
                settings |-> [fInlineThreshold |-> "kDefaultInlineThreshold",
                              fAllowNarrowingConversions |-> FALSE],
                options |-> "-", program |-> "nullptr", result |-> "nullptr",
                log |-> <<>>, rounds |-> 0]

\* StartRuntimeShader(compiler): Start() sets up the ThreadContext, whose
\* settings are the defaults the two SkASSERTs state; then both are changed.
StartRuntimeShader ==
    /\ pc = "dsl_idle"
    /\ ~frame.active
    /\ frame.rounds < MaxShaders
    /\ \E compiler \in Compilers :
          frame' = [frame EXCEPT !.active = TRUE,
                                 !.compiler = compiler,
                                 !.settings = [fInlineThreshold |-> 0,
                                               fAllowNarrowingConversions |-> TRUE],
                                 !.options = "-",
                                 !.program = "nullptr",
                                 !.result = "nullptr",
                                 !.log = <<>>]
    /\ UNCHANGED <<DrawContextFields, trace, pc>>

\* EndRuntimeShader(options) is called.
EnterEndRuntimeShader ==
    /\ pc = "dsl_idle"
    /\ frame.active
    /\ \E options \in EffectOptions :
          frame' = [frame EXCEPT !.options = options]
    /\ pc' = "end_38"
    /\ UNCHANGED <<DrawContextFields, trace>>

\* Line 38: std::unique_ptr<SkSL::Program> program = ReleaseProgram();
EndRuntimeShader_L38 ==
    /\ pc = "end_38"
    /\ \E program \in ReleasedPrograms :
          frame' = [frame EXCEPT !.program = program,
                                 !.log = Append(@, "ReleaseProgram")]
    /\ pc' = "end_39"
    /\ UNCHANGED <<DrawContextFields, trace>>

\* Line 39-40: ThreadContext::ReportErrors(Position{}); sk_sp<SkRuntimeEffect> result;
EndRuntimeShader_L39 ==
    /\ pc = "end_39"
    /\ frame' = [frame EXCEPT !.result = "nullptr",
                              !.log = Append(@, "ReportErrors")]
    /\ pc' = "end_41"
    /\ UNCHANGED <<DrawContextFields, trace>>

\* Variant: an early return when there is no program.
EndRuntimeShader_L41_returnsEarly ==
    /\ pc = "end_41"
    /\ IF frame.program # "nullptr"
       THEN /\ \E effect \in MadeEffects :
                  frame' = [frame EXCEPT !.result = effect,
                                         !.log = Append(@, "MakeForShader")]
            /\ pc' = "end_44"
       ELSE /\ frame' = [frame EXCEPT !.rounds = @ + 1]
            /\ pc' = "dsl_idle"
    /\ UNCHANGED <<DrawContextFields, trace>>

\* Line 41-43: if (program) result = SkRuntimeEffect::MakeForShader(...);
EndRuntimeShader_L41 ==
    /\ pc = "end_41"
    /\ IF frame.program # "nullptr"
       THEN \E effect \in MadeEffects :
               frame' = [frame EXCEPT !.result = effect,
                                      !.log = Append(@, "MakeForShader")]
       ELSE frame' = frame
    /\ pc' = "end_44"
    /\ UNCHANGED <<DrawContextFields, trace>>

\* Line 44: End(); the ThreadContext is gone.
EndRuntimeShader_L44 ==
    /\ pc = "end_44"
    /\ frame' = [frame EXCEPT !.active = FALSE, !.log = Append(@, "End")]
    /\ pc' = "end_45"
    /\ UNCHANGED <<DrawContextFields, trace>>

\* Line 45: return result;
EndRuntimeShader_L45 ==
    /\ pc = "end_45"
    /\ frame' = [frame EXCEPT !.rounds = @ + 1]
    /\ pc' = "dsl_idle"
    /\ UNCHANGED <<DrawContextFields, trace>>

ShaderNext ==
    \/ StartRuntimeShader
    \/ EnterEndRuntimeShader
    \/ EndRuntimeShader_L38
    \/ EndRuntimeShader_L39
    \/ EndRuntimeShader_L41
    \/ EndRuntimeShader_L44
    \/ EndRuntimeShader_L45

ShaderSpec == ShaderInit /\ [][ShaderNext]_vars

\* ------------------------------------------------- vocabulary of the claims
RecordingOps == {"stencilAndFillPath", "fillConvexPath", "strokePath"}

Last(s) == s[Len(s)]

IsRecording(c) == c.op \in RecordingOps

\* The operation the i-th call of tr asked to record.
OpOfCall(tr, i) == [kind |-> tr[i].op, args |-> tr[i].args, call |-> i]

\* The first call of the unbroken run of recording calls that ends right
\* before call k of tr (k itself when call k-1 is no recording call).
RunStart(tr, k) ==
    CHOOSE s \in 1..k :
        /\ \A i \in s..(k - 1) : IsRecording(tr[i])
        /\ (s = 1 \/ ~IsRecording(tr[s - 1]))

\* The operations recorded by that run, in call order.
RunBefore(tr, k) ==
    LET s == RunStart(tr, k)
    IN  [i \in 1..(k - s) |-> OpOfCall(tr, s + i - 1)]

\* The operations of a pass: those of the DrawList it was built from.
PassOps(pass) == pass.draws.ops

\* Indices of the snapRenderPassTask calls of tr that returned a task.
TaskCalls(tr) ==
    {i \in 1..Len(tr) : tr[i].op = "snapRenderPassTask" /\ ~tr[i].ret.null}

\* Indices of the recording calls of tr.
RecordingCalls(tr) == {i \in 1..Len(tr) : IsRecording(tr[i])}

\* Every position of the tasks returned so far:
\* <<task call, pass index, position in the pass>>.
TaskPositions(tr) ==
    UNION {UNION {{<<t, p, j>> : j \in 1..Len(PassOps(tr[t].ret.passes[p]))} :
                    p \in 1..Len(tr[t].ret.passes)} :
            t \in TaskCalls(tr)}

\* The operation at a position.
OpAt(tr, pl) == PassOps(tr[pl[1]].ret.passes[pl[2]])[pl[3]]

\* Where the operation of recording call i sits in the tasks returned so far.
Placements(tr, i) == {pl \in TaskPositions(tr) : OpAt(tr, pl).call = i}

\* The DrawList instances handed over inside the tasks returned so far.
TransferredLists(tr) ==
    UNION {{tr[t].ret.passes[p].draws.id : p \in 1..Len(tr[t].ret.passes)} :
            t \in TaskCalls(tr)}

\* --------------------------------------------------------------------- C1
\* C1: whenever snapRenderPassTask has returned (a task or null), the pending
\* DrawList has count 0 and fDrawPasses is empty.
C1_SnapTaskLeavesBothEmpty ==
    (trace # <<>> /\ Last(trace).op = "snapRenderPassTask")
        => (DrawList_count(fPendingDraws) = 0 /\ fDrawPasses = <<>>)

C1_Witness ==
    /\ trace # <<>>
    /\ Last(trace).op = "snapRenderPassTask"
    /\ ~Last(trace).ret.null
    /\ Len(Last(trace).ret.passes) = 2
    /\ DrawList_count(fPendingDraws) = 0
    /\ fDrawPasses = <<>>

\* --------------------------------------------------------------------- C2
\* C2: on a fresh DrawContext, N >= 1 recordings, snapDrawPass, M >= 1
\* recordings, snapRenderPassTask returns a task handed exactly two passes:
\* the first built from the first N operations, the second from the next M,
\* each in call order.
C2_Shape(n, m) ==
    /\ Len(trace) = n + m + 2
    /\ \A i \in 1..n : IsRecording(trace[i])
    /\ trace[n + 1].op = "snapDrawPass"
    /\ \A i \in (n + 2)..(n + m + 1) : IsRecording(trace[i])
    /\ trace[n + m + 2].op = "snapRenderPassTask"

C2_TwoPassesInOrder ==
    \A n \in 1..MaxCalls, m \in 1..MaxCalls :
        C2_Shape(n, m) =>
            LET task == trace[n + m + 2].ret
            IN  /\ ~task.null
                /\ Len(task.passes) = 2
                /\ PassOps(task.passes[1]) = [i \in 1..n |-> OpOfCall(trace, i)]
                /\ PassOps(task.passes[2]) = [i \in 1..m |-> OpOfCall(trace, n + 1 + i)]

C2_Witness ==
    /\ C2_Shape(2, 1)
    /\ Len(Last(trace).ret.passes) = 2
    /\ Len(PassOps(Last(trace).ret.passes[1])) = 2
    /\ PassOps(Last(trace).ret.passes[1])[1].kind # PassOps(Last(trace).ret.passes[1])[2].kind

\* --------------------------------------------------------------------- C3
\* C3: after a run of recording calls followed by a snapshot, the DrawList
\* handed to DrawPass construction holds exactly the operations recorded
\* since the previous snapshot (or construction), in call order.
C3_PassPreservesCallOrder ==
    LET k == Len(trace)
    IN  (k > 0 /\ RunBefore(trace, k) # <<>>) =>
            /\ trace[k].op = "snapDrawPass" =>
                  (fDrawPasses # <<>> /\ PassOps(Last(fDrawPasses)) = RunBefore(trace, k))
            /\ trace[k].op = "snapRenderPassTask" =>
                  (~trace[k].ret.null
                   /\ PassOps(Last(trace[k].ret.passes)) = RunBefore(trace, k))

C3_Witness ==
    /\ Len(trace) = 5
    /\ trace[1].op = "snapDrawPass"
    /\ trace[2].op = "strokePath"
    /\ trace[3].op = "stencilAndFillPath"
    /\ trace[4].op = "fillConvexPath"
    /\ trace[5].op = "snapDrawPass"
    /\ Len(fDrawPasses) = 1
    /\ Len(PassOps(fDrawPasses[1])) = 3
    /\ PassOps(fDrawPasses[1])[1].kind = "strokePath"
    /\ PassOps(fDrawPasses[1])[3].kind = "fillConvexPath"

\* --------------------------------------------------------------------- C4
\* C4: when a call sequence ends with snapRenderPassTask, every operation ever
\* recorded sits in exactly one pass of exactly one returned task, and the
\* DrawContext holds no pass and no DrawList that was handed over.
C4_NoLossNoDuplication ==
    (trace # <<>> /\ Last(trace).op = "snapRenderPassTask") =>
        /\ \A i \in RecordingCalls(trace) :
              /\ Cardinality(Placements(trace, i)) = 1
              /\ \A pl \in Placements(trace, i) : OpAt(trace, pl) = OpOfCall(trace, i)
        /\ fDrawPasses = <<>>
        /\ fPendingDraws.ops = <<>>
        /\ fPendingDraws.id \notin TransferredLists(trace)

C4_Witness ==
    /\ Len(trace) = 5
    /\ Cardinality(TaskCalls(trace)) = 2
    /\ Cardinality(RecordingCalls(trace)) = 3
    /\ Last(trace).op = "snapRenderPassTask"
    /\ \A i \in RecordingCalls(trace) : Cardinality(Placements(trace, i)) = 1

\* --------------------------------------------------------------------- C5
\* The step just taken is a call of op.
Called(op) == Len(trace') = Len(trace) + 1 /\ Last(trace').op = op

\* C5: snapDrawPass on a pending DrawList of count 0 is a no-op: the pass
\* sequence is unchanged, the pending DrawList is the same instance, and no
\* DrawList is allocated.
C5_EmptySnapIsNoOp ==
    [][(Called("snapDrawPass") /\ DrawList_count(fPendingDraws) = 0) =>
           /\ fDrawPasses' = fDrawPasses
           /\ fPendingDraws' = fPendingDraws
           /\ allocs' = allocs]_vars

C5_Witness ==
    /\ Len(trace) >= 3
    /\ IsRecording(trace[Len(trace) - 2])
    /\ trace[Len(trace) - 1].op = "snapDrawPass"
    /\ Last(trace).op = "snapDrawPass"
    /\ Len(fDrawPasses) = 1
    /\ allocs = 2
    /\ fPendingDraws.id = 2

\* --------------------------------------------------------------------- C6
\* C6: after every snapDrawPass call, whether the pending list was empty or
\* not, the pending DrawList's count is zero.
C6_PendingEmptyAfterSnap ==
    (trace # <<>> /\ Last(trace).op = "snapDrawPass") => DrawList_count(fPendingDraws) = 0

C6_Witness ==
    /\ Len(trace) >= 3
    /\ IsRecording(trace[Len(trace) - 2])
    /\ IsRecording(trace[Len(trace) - 1])
    /\ Last(trace).op = "snapDrawPass"
    /\ DrawList_count(fPendingDraws) = 0

\* --------------------------------------------------------------------- C7
\* C7: snapDrawPass on a non-empty pending DrawList appends exactly one pass,
\* built from that list, at the end of the pass sequence, keeps every earlier
\* pass in place, and replaces the pending DrawList by a new empty instance
\* distinct from the one handed over.
C7_NonEmptySnapAppendsOnePass ==
    [][(Called("snapDrawPass") /\ DrawList_count(fPendingDraws) > 0) =>
           /\ Len(fDrawPasses') = Len(fDrawPasses) + 1
           /\ SubSeq(fDrawPasses', 1, Len(fDrawPasses)) = fDrawPasses
           /\ Last(fDrawPasses').draws = fPendingDraws
           /\ DrawList_count(fPendingDraws') = 0
           /\ fPendingDraws'.id # fPendingDraws.id]_vars

C7_Witness ==
    /\ Len(trace) = 4
    /\ IsRecording(trace[1])
    /\ trace[2].op = "snapDrawPass"
    /\ IsRecording(trace[3])
    /\ trace[4].op = "snapDrawPass"
    /\ Len(fDrawPasses) = 2
    /\ fDrawPasses[1].draws.id = 1
    /\ fDrawPasses[2].draws.id = 2
    /\ fPendingDraws = make_unique_DrawList(3)

\* --------------------------------------------------------------------- C8
\* C8: each recording call can always be made, raises the pending DrawList's
\* count by exactly one, puts the new operation after all pending ones, and
\* leaves the pass sequence unchanged.
C8_RecordingStep ==
    \A op \in RecordingOps :
        Called(op) =>
            /\ DrawList_count(fPendingDraws') = DrawList_count(fPendingDraws) + 1
            /\ fPendingDraws'.ops =
                   Append(fPendingDraws.ops, OpOfCall(trace', Len(trace')))
            /\ fPendingDraws'.id = fPendingDraws.id
            /\ fDrawPasses' = fDrawPasses

C8_RecordingAppendsOne ==
    /\ [](Len(trace) < MaxCalls =>
             /\ ENABLED CallStencilAndFillPath
             /\ ENABLED CallFillConvexPath
             /\ ENABLED CallStrokePath)
    /\ [][C8_RecordingStep]_vars

C8_Witness ==
    /\ Len(trace) = 5
    /\ trace[1].op = "fillConvexPath"
    /\ trace[2].op = "snapDrawPass"
    /\ trace[3].op = "stencilAndFillPath"
    /\ trace[4].op = "fillConvexPath"
    /\ trace[5].op = "strokePath"
    /\ Len(fDrawPasses) = 1
    /\ DrawList_count(fPendingDraws) = 3
    /\ fPendingDraws.ops[3].kind = "strokePath"

\* --------------------------------------------------------------------- C9
\* C9: on a DrawContext on which nothing was ever recorded,
\* snapRenderPassTask returns null and leaves the pending DrawList and the
\* pass sequence empty, whatever snapshot calls came before.
C9_NothingRecordedGivesNull ==
    (trace # <<>> /\ Last(trace).op = "snapRenderPassTask" /\ RecordingCalls(trace) = {}) =>
        /\ Last(trace).ret.null
        /\ DrawList_count(fPendingDraws) = 0
        /\ fDrawPasses = <<>>

C9_Witness ==
    /\ Len(trace) = 4
    /\ RecordingCalls(trace) = {}
    /\ trace[1].op = "snapDrawPass"
    /\ trace[2].op = "snapRenderPassTask"
    /\ trace[3].op = "snapDrawPass"
    /\ trace[4].op = "snapRenderPassTask"
    /\ trace[4].ret.null
    /\ fDrawPasses = <<>>

\* -------------------------------------------------------------------- C10
\* The calls of tr made after the latest snapRenderPassTask call before call
\* k (after construction when there is none), up to call k - 1.
SincePreviousTask(tr, k) ==
    {i \in 1..(k - 1) :
        \A j \in i..(k - 1) : tr[j].op # "snapRenderPassTask"}

\* C10 as stated: whenever snapRenderPassTask returns null, no operation was
\* ever recorded over the DrawContext's lifetime.
C10_NullMeansNeverRecorded ==
    (trace # <<>> /\ Last(trace).op = "snapRenderPassTask" /\ Last(trace).ret.null)
        => RecordingCalls(trace) = {}

\* C10 (amended): whenever snapRenderPassTask returns null, no operation was
\* recorded since construction or since the previous snapRenderPassTask call.
C10_NullMeansNothingRecordedSinceTask ==
    (trace # <<>> /\ Last(trace).op = "snapRenderPassTask" /\ Last(trace).ret.null)
        => \A i \in SincePreviousTask(trace, Len(trace)) : ~IsRecording(trace[i])

C10_Witness ==
    /\ Len(trace) = 4
    /\ IsRecording(trace[1])
    /\ trace[2].op = "snapRenderPassTask"
    /\ ~trace[2].ret.null
    /\ trace[3].op = "snapDrawPass"
    /\ trace[4].op = "snapRenderPassTask"
    /\ trace[4].ret.null

\* -------------------------------------------------------------------- C11
\* C11: DrawContext::Make returns no instance for a null target; for every
\* non-null target it returns a DrawContext bound to that target whose pending
\* DrawList is non-null and empty and whose pass sequence is empty, whatever
\* the color space, color type and alpha type are.
C11_MakeFailsOnlyOnNullTarget ==
    pc # "Make" =>
        /\ frame.target = "nullptr" => pc = "no_instance"
        /\ frame.target # "nullptr" =>
              /\ pc = "idle"
              /\ fTarget = frame.target
              /\ fPendingDraws # NullDrawList
              /\ fPendingDraws.id # 0
              /\ DrawList_count(fPendingDraws) = 0
              /\ fDrawPasses = <<>>

C11_Witness ==
    /\ pc = "idle"
    /\ frame.op = "Make"
    /\ frame.target = "t1"
    /\ frame.colorSpace = "nullptr"
    /\ frame.colorType = "kUnknown_SkColorType"
    /\ frame.alphaType = "kUnknown_SkAlphaType"
    /\ fImageInfo.dimensions = <<256, 256>>
    /\ fPendingDraws = make_unique_DrawList(1)

\* -------------------------------------------------------------------- C12
\* C12: a snapDrawPass that directly follows a snapDrawPass, with nothing
\* recorded in between, leaves the observable state (pending count, pass
\* sequence length and contents) as the first one left it.
C12_SnapDrawPassIdempotent ==
    [][(trace # <<>> /\ Last(trace).op = "snapDrawPass" /\ Called("snapDrawPass")) =>
           /\ DrawList_count(fPendingDraws') = DrawList_count(fPendingDraws)
           /\ Len(fDrawPasses') = Len(fDrawPasses)
           /\ fDrawPasses' = fDrawPasses]_vars

C12_Witness ==
    /\ Len(trace) = 5
    /\ IsRecording(trace[1])
    /\ trace[2].op = "snapDrawPass"
    /\ IsRecording(trace[3])
    /\ trace[4].op = "snapDrawPass"
    /\ trace[5].op = "snapDrawPass"
    /\ trace[4].culler # trace[5].culler
    /\ Len(fDrawPasses) = 2
    /\ DrawList_count(fPendingDraws) = 0

\* -------------------------------------------------------------------- C14
\* C14: no spurious empty passes: every pass of the pass sequence was built
\* from a DrawList of count >= 1, and every task returned was built from at
\* least one pass, each of count >= 1.
C14_NoEmptyPassNoEmptyTask ==
    /\ \A p \in 1..Len(fDrawPasses) : DrawList_count(fDrawPasses[p].draws) >= 1
    /\ \A t \in TaskCalls(trace) :
          /\ Len(trace[t].ret.passes) >= 1
          /\ \A p \in 1..Len(trace[t].ret.passes) :
                DrawList_count(trace[t].ret.passes[p].draws) >= 1

C14_Witness ==
    /\ Len(trace) = 5
    /\ trace[1].op = "snapDrawPass"
    /\ IsRecording(trace[2])
    /\ trace[3].op = "snapRenderPassTask"
    /\ Len(trace[3].ret.passes) = 1
    /\ IsRecording(trace[4])
    /\ trace[5].op = "snapDrawPass"
    /\ Len(fDrawPasses) = 1

\* -------------------------------------------------------------------- C15
\* Nothing was recorded after the latest snapRenderPassTask call of tr (after
\* construction when there is none).
NothingRecordedSinceTask(tr) ==
    \A i \in SincePreviousTask(tr, Len(tr) + 1) : ~IsRecording(tr[i])

\* C15: between public calls the destructor's two assertions hold if and only
\* if no recording call was made since construction or since the latest
\* snapRenderPassTask; snapDrawPass alone does not make them hold again.
C15_DestroyableIffNothingRecorded ==
    DrawContext_dtor_asserts(Self) <=> NothingRecordedSinceTask(trace)

C15_Witness ==
    /\ Len(trace) = 4
    /\ IsRecording(trace[1])
    /\ trace[2].op = "snapRenderPassTask"
    /\ IsRecording(trace[3])
    /\ trace[4].op = "snapDrawPass"
    /\ DrawList_count(fPendingDraws) = 0
    /\ ~DrawContext_dtor_asserts(Self)

\* -------------------------------------------------------------------- C16
\* The DrawList instances the passes of the task returned by call t hold.
TaskLists(tr, t) == {tr[t].ret.passes[p].draws.id : p \in 1..Len(tr[t].ret.passes)}

\* C16: snapRenderPassTask returns a task if and only if something was
\* recorded since construction or since the previous snapRenderPassTask; a
\* snapRenderPassTask right after another returns null; no pass is handed to
\* two tasks.
C16_TaskIffRecordedSinceTask ==
    /\ (trace # <<>> /\ Last(trace).op = "snapRenderPassTask") =>
          (~Last(trace).ret.null <=>
              \E i \in SincePreviousTask(trace, Len(trace)) : IsRecording(trace[i]))
    /\ (Len(trace) >= 2 /\ Last(trace).op = "snapRenderPassTask"
            /\ trace[Len(trace) - 1].op = "snapRenderPassTask") => Last(trace).ret.null
    /\ \A t1, t2 \in TaskCalls(trace) :
          t1 # t2 => TaskLists(trace, t1) \cap TaskLists(trace, t2) = {}

C16_Witness ==
    /\ Len(trace) = 5
    /\ IsRecording(trace[1])
    /\ trace[2].op = "snapRenderPassTask"
    /\ ~trace[2].ret.null
    /\ trace[3].op = "snapRenderPassTask"
    /\ trace[3].ret.null
    /\ IsRecording(trace[4])
    /\ trace[5].op = "snapRenderPassTask"
    /\ ~trace[5].ret.null

\* -------------------------------------------------------------------- C18
\* Every pass the DrawContext holds or has handed over in a task is bound to
\* the DrawContext's target, and the image description is that target's.
C18_PassesOnTarget ==
    /\ fImageInfo.dimensions = TextureProxy_dimensions(fTarget)
    /\ \A p \in 1..Len(fDrawPasses) : fDrawPasses[p].target = fTarget
    /\ \A t \in TaskCalls(trace) :
          \A p \in 1..Len(trace[t].ret.passes) : trace[t].ret.passes[p].target = fTarget

\* C18: the target and the image description are fixed at construction, no
\* recording or snapshot call changes them, and every pass is constructed with
\* that target.
C18_TargetConsistency ==
    /\ [](fTarget \in Targets /\ C18_PassesOnTarget)
    /\ [][fTarget' = fTarget /\ fImageInfo' = fImageInfo]_vars

C18_Witness ==
    /\ fTarget = "t2"
    /\ fImageInfo.dimensions = <<64, 32>>
    /\ Len(trace) = 5
    /\ Last(trace).op = "snapRenderPassTask"
    /\ Len(Last(trace).ret.passes) = 2
    /\ Last(trace).ret.passes[1].target = "t2"
    /\ Last(trace).ret.passes[2].target = "t2"

\* -------------------------------------------------------------------- C13
\* C13: a destructor run right after snapRenderPassTask has returned finds
\* both of its assertions true, whatever was called before; in particular
\* strokePath, fillConvexPath, snapRenderPassTask, destructor yields one task
\* of one pass holding the two operations in recorded order, and a clean
\* destruction.
C13_Scenario ==
    /\ Len(trace) = 4
    /\ trace[1].op = "strokePath"
    /\ trace[2].op = "fillConvexPath"
    /\ trace[3].op = "snapRenderPassTask"
    /\ trace[4].op = "~DrawContext"

C13_DestroyAfterTaskIsClean ==
    /\ (Len(trace) >= 2 /\ Last(trace).op = "~DrawContext"
            /\ trace[Len(trace) - 1].op = "snapRenderPassTask") => pc = "destroyed"
    /\ C13_Scenario =>
          /\ pc = "destroyed"
          /\ ~trace[3].ret.null
          /\ Len(trace[3].ret.passes) = 1
          /\ PassOps(trace[3].ret.passes[1]) = <<OpOfCall(trace, 1), OpOfCall(trace, 2)>>

C13_Witness ==
    /\ C13_Scenario
    /\ fTarget = "t1"
    /\ fImageInfo.dimensions = <<256, 256>>
    /\ pc = "destroyed"
    /\ PassOps(trace[3].ret.passes[1])[1].kind = "strokePath"
    /\ PassOps(trace[3].ret.passes[1])[2].kind = "fillConvexPath"

\* -------------------------------------------------------------------- C17
\* The places where fPendingDraws is dereferenced: a recording call or the
\* destructor is about to run (idle), and the count() check of line 76.
C17_DerefPoints == {"idle", "snap_76"}

\* C17: fPendingDraws is null only between the move into DrawPass::Make
\* (line 80) and the re-allocation (line 82); it is non-null whenever a public
\* call is entered or has returned, when the destructor runs and at every
\* count() check.
C17_PendingNullOnlyInsideSnap ==
    /\ fPendingDraws.id = 0 => pc \in {"snap_81", "snap_82"}
    /\ pc \in C17_DerefPoints => fPendingDraws # NullDrawList

C17_Witness ==
    /\ pc = "snap_82"
    /\ fPendingDraws = NullDrawList
    /\ frame.op = "snapRenderPassTask"
    /\ Len(fDrawPasses) = 2
    /\ Len(trace) = 3

\* -------------------------------------------------------------------- C19
\* How often event e occurs in log.
Occurrences(log, e) == Cardinality({i \in 1..Len(log) : log[i] = e})

\* EndRuntimeShader has returned at least once and none is in progress.
C19_Returned == pc = "dsl_idle" /\ frame.rounds >= 1 /\ ~frame.active

\* C19: EndRuntimeShader releases the program, reports errors and then calls
\* End() exactly once on both paths; it returns a non-null effect only if
\* ReleaseProgram yielded a program, and returns null, End() still called,
\* when there was none.
C19_EndCalledOnceOnBothPaths ==
    /\ Occurrences(frame.log, "End") <= 1
    /\ C19_Returned =>
          /\ Occurrences(frame.log, "End") = 1
          /\ Last(frame.log) = "End"
          /\ frame.log[1] = "ReleaseProgram"
          /\ frame.log[2] = "ReportErrors"
          /\ frame.result # "nullptr" => frame.program # "nullptr"
          /\ frame.program = "nullptr" =>
                /\ frame.result = "nullptr"
                /\ frame.log = <<"ReleaseProgram", "ReportErrors", "End">>
          /\ frame.program # "nullptr" =>
                frame.log = <<"ReleaseProgram", "ReportErrors", "MakeForShader", "End">>

C19_Witness ==
    /\ C19_Returned
    /\ frame.rounds = 2
    /\ frame.program = "nullptr"
    /\ frame.result = "nullptr"
    /\ frame.log = <<"ReleaseProgram", "ReportErrors", "End">>
====
